---- MODULE Spec2Model ----
(***************************************************************************)
(* Model of netflix_app.py: a Streamlit script that loads a catalog of     *)
(* titles, reads three sidebar widgets (type, release year, rating),       *)
(* filters the catalog and renders the aggregates of five tabs.  Streamlit *)
(* re-executes the whole script after every widget interaction, so every   *)
(* action below is one widget change followed by one full run of the       *)
(* script.                                                                 *)
(*                                                                         *)
(* Strings whose characters matter (duration, listed_in, country) are      *)
(* sequences of one-character strings.  A pandas frame is a record of its  *)
(* column names and its rows; a view of the frame (filtered_df, movies_df) *)
(* is the ascending sequence of the index labels it keeps.                 *)
(***************************************************************************)
EXTENDS Integers, Sequences, FiniteSets, TLC

\* Largest number of rows of a loaded catalog.
MaxRecords == 2

\* A cell of a frame is NaN (pandas' missing value) or Cell(v) for a value v.
NaN == <<>>
Cell(v) == <<v>>
Val(c) == c[1]

\* .head(10) of tabs 2, 3 and 4.
HeadN == 10

\* value=(2000, 2020) of the release-year slider.
DefaultYearLo == 2000
DefaultYearHi == 2020

RequiredColumns == {"type", "release_year", "listed_in"}
OptionalColumns == {"rating", "duration", "country"}

----------------------------------------------------------------------------
(* Character strings *)

DigitSeq == <<"0", "1", "2", "3", "4", "5", "6", "7", "8", "9">>

IsDigit(c) == \E k \in 1..10 : DigitSeq[k] = c

DigitVal(c) == (CHOOSE k \in 1..10 : DigitSeq[k] = c) - 1

RECURSIVE ToNumber(_)
\* astype(float) of a run of decimal digits.
ToNumber(run) ==
    IF run = <<>> THEN 0
    ELSE 10 * ToNumber(SubSeq(run, 1, Len(run) - 1)) + DigitVal(run[Len(run)])

\* Series.str.extract('(\d+)').astype(float) on one cell: the first maximal
\* run of digits as a number, NaN for a missing cell or a cell without digits.
ExtractDigits(c) ==
    IF c = NaN THEN NaN
    ELSE LET s == Val(c) IN
    IF \A k \in 1..Len(s) : ~IsDigit(s[k]) THEN NaN
    ELSE LET first == CHOOSE k \in 1..Len(s) :
                         /\ IsDigit(s[k])
                         /\ \A j \in 1..(k - 1) : ~IsDigit(s[j])
             last  == CHOOSE k \in first..Len(s) :
                         /\ \A j \in first..k : IsDigit(s[j])
                         /\ (k = Len(s) \/ ~IsDigit(s[k + 1]))
         IN Cell(ToNumber(SubSeq(s, first, last)))

\* Series.str.split(',').str[0] on one cell: the characters before the first
\* comma, unchanged; NaN for a missing cell.
FirstSegment(c) ==
    IF c = NaN THEN NaN
    ELSE LET s == Val(c) IN
    IF \A k \in 1..Len(s) : s[k] # "," THEN c
    ELSE LET comma == CHOOSE k \in 1..Len(s) :
                         /\ s[k] = ","
                         /\ \A j \in 1..(k - 1) : s[j] # ","
         IN Cell(SubSeq(s, 1, comma - 1))

----------------------------------------------------------------------------
(* The catalog *)

min_s  == <<" ", "m", "i", "n">>
Drama  == <<"D", "r", "a", "m", "a">>
Comedy == <<"C", "o", "m", "e", "d", "y">>
India  == <<"I", "n", "d", "i", "a">>

\* Rows of netflix_titles.csv the catalogs are built from.
RecordPool ==
    { [type |-> "Movie", release_year |-> Cell(2000), rating |-> Cell("PG"),
       duration |-> Cell(<<"9", "0">> \o min_s),
       listed_in |-> Cell(Drama),
       country |-> Cell(India)],
      [type |-> "Movie", release_year |-> Cell(2010), rating |-> Cell("R"),
       duration |-> Cell(<<"1", "2", "0">> \o min_s),
       listed_in |-> Cell(Drama \o <<",", " ">> \o Comedy),
       country |-> Cell(India \o <<" ", ",", "U", "S">>)],
      [type |-> "TV Show", release_year |-> Cell(2020), rating |-> NaN,
       duration |-> Cell(<<"2", " ", "S", "e", "a", "s", "o", "n", "s">>),
       listed_in |-> Cell(Comedy),
       country |-> NaN],
      [type |-> "Movie", release_year |-> NaN, rating |-> Cell("PG"),
       duration |-> NaN,
       listed_in |-> Cell(Drama),
       country |-> Cell(India \o <<",", " ", "U", "S">>)],
      [type |-> "Movie", release_year |-> Cell(2020), rating |-> Cell("R"),
       duration |-> Cell(<<"m", "i", "n">>),
       listed_in |-> Cell(Comedy),
       country |-> Cell(<<" ">> \o India)],
      [type |-> "Movie", release_year |-> Cell(2010), rating |-> Cell("PG"),
       duration |-> Cell(<<"9", "0">> \o min_s),
       listed_in |-> Cell(Drama),
       country |-> NaN] }

\* Positions the release-year slider is moved to.
YearChoices == {2000, 2010, 2020}

Project(row, cols) == [c \in cols |-> row[c]]

\* pd.read_csv('netflix_titles.csv'): any file of at most MaxRecords rows,
\* with any of the optional columns missing.
Catalogs ==
    UNION { { [columns |-> RequiredColumns \cup opt,
               rows |-> [k \in 1..n |-> Project(rs[k], RequiredColumns \cup opt)]] :
                opt \in SUBSET OptionalColumns, rs \in [1..n -> RecordPool] } :
            n \in 0..MaxRecords }

Index(d) == 1..Len(d.rows)

\* Series.dropna().unique() as a set.
Unique(d, col) == { Val(d.rows[i][col]) : i \in { j \in Index(d) : d.rows[j][col] # NaN } }

\* read_csv gives a column without any string the dtype float64, and .str
\* is defined on object columns only; an empty frame's columns are object.
IsStrColumn(d, col) == Len(d.rows) = 0 \/ \E i \in Index(d) : d.rows[i][col] # NaN

SetMin(S) == CHOOSE x \in S : \A y \in S : x <= y
SetMax(S) == CHOOSE x \in S : \A y \in S : x >= y

----------------------------------------------------------------------------
(* The sidebar widgets *)

\* options=df['type'].unique() of the "Select Type" multiselect.
TypeOptions(d) == { d.rows[i].type : i \in Index(d) }

\* options=df['rating'].dropna().unique() of the "Select Rating" multiselect.
RatingOptions(d) == Unique(d, "rating")

\* df['release_year'].min() and .max() skip NaN and are NaN themselves when
\* no row has a year; int(NaN) raises ValueError.
HasYear(d) == Unique(d, "release_year") # {}

\* The slider's range: int(df['release_year'].min()) .. int(.max()), which
\* the slider widens to hold its default value (2000, 2020).
SliderMin(d) ==
    LET m == SetMin(Unique(d, "release_year"))
    IN IF m < DefaultYearLo THEN m ELSE DefaultYearLo

SliderMax(d) ==
    LET m == SetMax(Unique(d, "release_year"))
    IN IF m > DefaultYearHi THEN m ELSE DefaultYearHi

----------------------------------------------------------------------------
(* Filtering *)

\* isin with its mask inverted.
IsInInverted(x, values) == x \notin values

\* Series.isin(values) on one cell of the type column.
IsIn(x, values) == x \in values

\* between with the right end excluded (inclusive='left').
BetweenRightOpen(c, left, right) == c # NaN /\ left <= Val(c) /\ Val(c) < right

\* between written as "not outside the range", which lets NaN through.
BetweenNotOutside(c, left, right) ==
    c = NaN \/ ~(Val(c) < left \/ Val(c) > right)

\* Series.between(left, right) on one cell: both ends included, NaN is False.
Between(c, left, right) == c # NaN /\ left <= Val(c) /\ Val(c) <= right

\* filtered_df = df[type.isin(type_filter) & release_year.between(lo, hi)]:
\* the index labels of the rows kept, in catalog order.
FilterView(d, tf, yf) ==
    SelectSeq([k \in 1..Len(d.rows) |-> k],
              LAMBDA i : /\ IsIn(d.rows[i].type, tf)
                         /\ Between(d.rows[i].release_year, yf[1], yf[2]))

\* The cells of one column of a view.
Column(d, view, col) == [j \in 1..Len(view) |-> d.rows[view[j]][col]]

----------------------------------------------------------------------------
(* Aggregation *)

\* Series.value_counts() and groupby(col).size(): the number of cells per
\* distinct value; NaN cells are dropped.
ValueCounts(cells) ==
    [v \in { Val(cells[j]) : j \in { k \in 1..Len(cells) : cells[k] # NaN } } |->
        Cardinality({ j \in 1..Len(cells) : cells[j] = Cell(v) })]

\* .head(n) of a value_counts(): the n most frequent values.
HeadCounts(vc, n) ==
    IF Cardinality(DOMAIN vc) <= n THEN vc
    ELSE LET keep == CHOOSE S \in SUBSET (DOMAIN vc) :
                        /\ Cardinality(S) = n
                        /\ \A a \in S, b \in (DOMAIN vc) \ S : vc[a] >= vc[b]
         IN [v \in keep |-> vc[v]]

\* movies_df: a copy of the Movie rows of the view with the added column
\* duration_mins.
MoviesDf(d, view) ==
    LET movies == SelectSeq(view, LAMBDA i : d.rows[i].type = "Movie")
    IN [j \in 1..Len(movies) |->
           [index |-> movies[j],
            duration_mins |-> ExtractDigits(d.rows[movies[j]].duration)]]

RECURSIVE SortDesc(_, _)
\* The rows with a duration_mins, largest first.  sort_values uses numpy's
\* quicksort, which is not stable: a build keeps rows of equal duration in
\* catalog order (stable) or not (here: in reverse order).
SortDesc(s, stable) ==
    IF s = <<>> THEN <<>>
    ELSE LET x    == Head(s)
             rest == SortDesc(Tail(s), stable)
             Before(y) == IF stable
                            THEN Val(y.duration_mins) > Val(x.duration_mins)
                            ELSE Val(y.duration_mins) >= Val(x.duration_mins)
         IN SelectSeq(rest, Before) \o <<x>>
              \o SelectSeq(rest, LAMBDA y : ~Before(y))

\* movies_df.sort_values('duration_mins', ascending=False): NaN rows are put
\* last (na_position='last'), in catalog order.
SortValues(movies, stable) ==
    SortDesc(SelectSeq(movies, LAMBDA m : m.duration_mins # NaN), stable)
      \o SelectSeq(movies, LAMBDA m : m.duration_mins = NaN)

\* DataFrame.head(n).
HeadRows(s, n) == IF Len(s) <= n THEN s ELSE SubSeq(s, 1, n)

RECURSIVE SumSeq(_)
SumSeq(s) == IF s = <<>> THEN 0 ELSE Head(s) + SumSeq(Tail(s))

\* movies_df['duration_mins'].mean(): NaN cells are skipped; the mean of no
\* value is NaN.  The mean is kept as the exact quotient num / den.
Mean(movies) ==
    LET vals == SelectSeq(movies, LAMBDA m : m.duration_mins # NaN)
    IN IF vals = <<>> THEN NaN
       ELSE Cell([num |-> SumSeq([j \in 1..Len(vals) |-> Val(vals[j].duration_mins)]),
                  den |-> Len(vals)])

\* country_df: a copy of the view with the added column main_country.
CountryDf(d, view) ==
    [j \in 1..Len(view) |->
        [index |-> view[j], main_country |-> FirstSegment(d.rows[view[j]].country)]]

----------------------------------------------------------------------------
(* One run of the script *)

\* What a run leaves behind when it stops before filtering.
NoOutput ==
    [status |-> "ok", rendered |-> {}, warnings |-> {},
     filtered_df |-> <<>>, total_titles |-> 0,
     titles_per_year |-> <<>>, top_genres |-> <<>>,
     longest_movies |-> <<>>, avg_duration |-> NaN,
     ratings_count |-> <<>>, country_counts |-> <<>>]

\* Tab 5: the country distribution, or a warning without a country column.
\* .str raises AttributeError on a column that holds no string.
Tab5(d, view, o) ==
    IF "country" \notin d.columns
      THEN [o EXCEPT !.warnings = @ \cup {"tab5"}]
    ELSE IF ~IsStrColumn(d, "country")
      THEN [o EXCEPT !.status = "AttributeError"]
    ELSE LET country_df == CountryDf(d, view)
         IN [o EXCEPT !.rendered = @ \cup {"tab5"},
                      !.country_counts =
                          ValueCounts([j \in 1..Len(country_df) |->
                                          country_df[j].main_country])]

\* Tab 4: the ten most frequent ratings, or a warning without a rating column.
Tab4(d, view, o) ==
    IF "rating" \notin d.columns
      THEN Tab5(d, view, [o EXCEPT !.warnings = @ \cup {"tab4"}])
    ELSE Tab5(d, view,
              [o EXCEPT !.rendered = @ \cup {"tab4"},
                        !.ratings_count =
                            HeadCounts(ValueCounts(Column(d, view, "rating")), HeadN)])

\* Tab 3: the ten longest movies and the average duration, or a warning
\* without a duration column.
Tab3(d, view, o, stable) ==
    IF "duration" \notin d.columns
      THEN Tab4(d, view, [o EXCEPT !.warnings = @ \cup {"tab3"}])
    ELSE IF ~IsStrColumn(d, "duration")
      THEN [o EXCEPT !.status = "AttributeError"]
    ELSE LET movies_df == MoviesDf(d, view)
         IN Tab4(d, view,
                 [o EXCEPT !.rendered = @ \cup {"tab3", "avg_metric"},
                           !.longest_movies =
                               HeadRows(SortValues(movies_df, stable), HeadN),
                           !.avg_duration = Mean(movies_df)])

\* The script from the sidebar to the last tab, for the widget values tf
\* (types) and yf (years); the rating widget's value is read by no line.
Script(d, tf, yf, stable) ==
    IF ~HasYear(d)
      THEN [NoOutput EXCEPT !.status = "ValueError"]
    ELSE IF "rating" \notin d.columns
      THEN [NoOutput EXCEPT !.status = "KeyError", !.warnings = {"sidebar"}]
    ELSE LET view == FilterView(d, tf, yf)
         IN Tab3(d, view,
                 [NoOutput EXCEPT
                     !.rendered = {"kpi", "tab1", "tab2"},
                     !.filtered_df = view,
                     !.total_titles = Len(view),
                     !.titles_per_year =
                         ValueCounts(Column(d, view, "release_year")),
                     !.top_genres =
                         HeadCounts(ValueCounts(Column(d, view, "listed_in")), HeadN)],
                 stable)

\* The script filtering df in place: df = df[...].
StoreFilteredInPlace(d, view) ==
    [d EXCEPT !.rows = [j \in 1..Len(view) |-> d.rows[view[j]]]]

\* The frame df at the end of a run: filtering and the tabs work on new
\* frames and on copies, so df is what load_data returned.
StoreAfterPass(d, view) == d

----------------------------------------------------------------------------
(* State *)

VARIABLES
    cached,           \* the value st.cache_data keeps for load_data()
    stableSort,       \* whether this build's sort keeps ties in order
    df,               \* the frame df after the last run
    type_filter,      \* value of the "Select Type" multiselect
    year_filter,      \* value of the "Release Year" slider, <<lo, hi>>
    rating_filter,    \* value of the "Select Rating" multiselect
    status,           \* "ok" or the exception that stopped the last run
    rendered,         \* the sections the last run rendered
    warnings,         \* the sections the last run replaced by st.warning
    filtered_df,
    total_titles,
    titles_per_year,
    top_genres,
    longest_movies,
    avg_duration,
    ratings_count,
    country_counts

widgets == <<type_filter, year_filter, rating_filter>>

outputs == <<df, status, rendered, warnings, filtered_df, total_titles,
             titles_per_year, top_genres, longest_movies, avg_duration,
             ratings_count, country_counts>>

vars == <<cached, stableSort, widgets, outputs>>

\* One run of the script with the widget values tf and yf: df = load_data()
\* is the cached frame, and every output is replaced.
Run(tf, yf) ==
    \E o \in {Script(cached, tf, yf, stableSort)} :
       /\ df' = StoreAfterPass(cached, o.filtered_df)
       /\ status' = o.status
       /\ rendered' = o.rendered
       /\ warnings' = o.warnings
       /\ filtered_df' = o.filtered_df
       /\ total_titles' = o.total_titles
       /\ titles_per_year' = o.titles_per_year
       /\ top_genres' = o.top_genres
       /\ longest_movies' = o.longest_movies
       /\ avg_duration' = o.avg_duration
       /\ ratings_count' = o.ratings_count
       /\ country_counts' = o.country_counts

\* The first run: load_data() reads the file, every widget has its default.
Init ==
    /\ cached \in Catalogs
    /\ stableSort \in BOOLEAN
    /\ type_filter = TypeOptions(cached)
    /\ year_filter = <<DefaultYearLo, DefaultYearHi>>
    /\ rating_filter = IF HasYear(cached) /\ "rating" \in cached.columns
                         THEN RatingOptions(cached) ELSE {}
    /\ \E o \in {Script(cached, type_filter, year_filter, stableSort)} :
          /\ df = StoreAfterPass(cached, o.filtered_df)
          /\ status = o.status
          /\ rendered = o.rendered
          /\ warnings = o.warnings
          /\ filtered_df = o.filtered_df
          /\ total_titles = o.total_titles
          /\ titles_per_year = o.titles_per_year
          /\ top_genres = o.top_genres
          /\ longest_movies = o.longest_movies
          /\ avg_duration = o.avg_duration
          /\ ratings_count = o.ratings_count
          /\ country_counts = o.country_counts

\* The user changes the type multiselect; the script runs again.
SelectType(S) ==
    /\ S # type_filter
    /\ type_filter' = S
    /\ UNCHANGED <<cached, stableSort, year_filter, rating_filter>>
    /\ Run(S, year_filter)

\* The user moves the release-year slider; the script runs again.  The
\* slider exists only when the run got past int(df['release_year'].min()).
SlideYear(lo, hi) ==
    /\ HasYear(cached)
    /\ SliderMin(cached) <= lo /\ lo <= hi /\ hi <= SliderMax(cached)
    /\ <<lo, hi>> # year_filter
    /\ year_filter' = <<lo, hi>>
    /\ UNCHANGED <<cached, stableSort, type_filter, rating_filter>>
    /\ Run(type_filter, <<lo, hi>>)

\* The user changes the rating multiselect; the script runs again.  The
\* multiselect exists only when the run reached it and the column exists.
SelectRating(S) ==
    /\ HasYear(cached)
    /\ "rating" \in cached.columns
    /\ S # rating_filter
    /\ rating_filter' = S
    /\ UNCHANGED <<cached, stableSort, type_filter, year_filter>>
    /\ Run(type_filter, year_filter)

Next ==
    \/ \E S \in SUBSET TypeOptions(cached) : SelectType(S)
    \/ \E lo \in YearChoices, hi \in YearChoices : SlideYear(lo, hi)
    \/ /\ "rating" \in cached.columns
       /\ \E S \in SUBSET RatingOptions(cached) : SelectRating(S)

Spec == Init /\ [][Next]_vars

----------------------------------------------------------------------------
(* Vocabulary of the properties *)

\* The last run filtered the catalog.
Filtered == "kpi" \in rendered

Row(i) == cached.rows[i]

InView(i) == \E j \in 1..Len(filtered_df) : filtered_df[j] = i

ViewSet == { filtered_df[j] : j \in 1..Len(filtered_df) }

RECURSIVE SumCounts(_, _)
SumCounts(f, S) ==
    IF S = {} THEN 0
    ELSE LET x == CHOOSE y \in S : TRUE IN f[x] + SumCounts(f, S \ {x})

RECURSIVE Trim(_)
\* s without its leading and trailing blanks.
Trim(s) ==
    IF s = <<>> THEN s
    ELSE IF Head(s) = " " THEN Trim(Tail(s))
    ELSE IF s[Len(s)] = " " THEN Trim(SubSeq(s, 1, Len(s) - 1))
    ELSE s

RECURSIVE SplitComma(_)
\* The comma-separated segments of s, as a sequence.
SplitComma(s) ==
    IF \A k \in 1..Len(s) : s[k] # "," THEN <<s>>
    ELSE LET comma == CHOOSE k \in 1..Len(s) :
                         /\ s[k] = ","
                         /\ \A j \in 1..(k - 1) : s[j] # ","
         IN <<SubSeq(s, 1, comma - 1)>> \o SplitComma(SubSeq(s, comma + 1, Len(s)))

\* The genres a listed_in cell names: its segments, trimmed, none empty.
GenreSet(c) ==
    IF c = NaN THEN {}
    ELSE LET segs == SplitComma(Val(c))
         IN { Trim(segs[k]) : k \in 1..Len(segs) } \ {<<>>}

\* The primary country of a country cell: its first segment, trimmed.
PrimaryCountry(c) ==
    IF c = NaN THEN NaN ELSE Cell(Trim(Head(SplitComma(Val(c)))))

----------------------------------------------------------------------------
(* Properties *)

\* C1: every record of the filtered view that has a rating has one of the
\* selected ratings.
C1_RatingSelected ==
    Filtered =>
        \A i \in ViewSet :
            Row(i).rating # NaN => Val(Row(i).rating) \in rating_filter

\* C2: the release-year range is inclusive: a record of a selected type
\* whose year is the selected minimum or maximum is in the filtered view, a
\* record whose year is outside the range is not, and a record without a
\* year is never in it.
C2_YearRangeInclusive ==
    Filtered =>
        \A i \in Index(cached) :
            LET y == Row(i).release_year
            IN /\ y = NaN => ~InView(i)
               /\ y # NaN =>
                    /\ (Val(y) < year_filter[1] \/ Val(y) > year_filter[2])
                          => ~InView(i)
                    /\ ( /\ Row(i).type \in type_filter
                         /\ (Val(y) = year_filter[1] \/ Val(y) = year_filter[2]) )
                          => InView(i)

\* A narrowed range keeps a record at its upper end and drops a record of a
\* selected type that has no year.
C2_Witness ==
    /\ Filtered
    /\ year_filter # <<DefaultYearLo, DefaultYearHi>>
    /\ \E i \in ViewSet : Row(i).release_year = Cell(year_filter[2])
    /\ \E i \in Index(cached) :
          /\ Row(i).type \in type_filter
          /\ Row(i).release_year = NaN
          /\ ~InView(i)

\* C3: the top-genres aggregate counts individual genres: every genre named
\* by a record of the view has as its count the number of records naming it,
\* and no key of the aggregate is a comma-separated list.
C3_GenresCountedIndividually ==
    "tab2" \in rendered =>
        /\ \A key \in DOMAIN top_genres : \A k \in 1..Len(key) : key[k] # ","
        /\ \A i \in ViewSet : \A g \in GenreSet(Row(i).listed_in) :
              /\ g \in DOMAIN top_genres
              /\ top_genres[g] =
                    Cardinality({ j \in ViewSet : g \in GenreSet(Row(j).listed_in) })

\* C4: when the view holds no Movie with a parsable duration, the run does
\* not fail and shows no average duration.
C4_AverageAbsent ==
    ( /\ Filtered
      /\ "duration" \in cached.columns
      /\ \A i \in ViewSet :
            Row(i).type = "Movie" => ExtractDigits(Row(i).duration) = NaN )
    => /\ status # "AttributeError"
       /\ "avg_metric" \notin rendered

\* C5: longest_movies holds only Movie records with a parsed duration, in
\* descending order of duration, records of equal duration in catalog order,
\* and at most ten of them.
C5_LongestMovies ==
    "tab3" \in rendered =>
        /\ Len(longest_movies) <= HeadN
        /\ \A j \in 1..Len(longest_movies) :
              /\ Row(longest_movies[j].index).type = "Movie"
              /\ longest_movies[j].duration_mins # NaN
        /\ \A j, k \in 1..Len(longest_movies) :
              ( /\ j < k
                /\ longest_movies[j].duration_mins # NaN
                /\ longest_movies[k].duration_mins # NaN )
              => \/ Val(longest_movies[j].duration_mins)
                      > Val(longest_movies[k].duration_mins)
                 \/ /\ longest_movies[j].duration_mins
                         = longest_movies[k].duration_mins
                    /\ longest_movies[j].index < longest_movies[k].index

\* C6: a missing optional column never stops the run: the catalog is still
\* filtered and the column's tab is replaced by a notice.
C6_MissingColumnTolerated ==
    \A c \in OptionalColumns \ cached.columns :
        HasYear(cached) =>
            /\ status # "KeyError"
            /\ Filtered

\* C7: a run whose criteria are the previous ones with one category
\* tightened (fewer types, fewer ratings, a narrower year range) never has
\* more records in its filtered view.
C7_Monotonic ==
    [][ ( /\ Filtered
          /\ Filtered'
          /\ type_filter' \subseteq type_filter
          /\ rating_filter' \subseteq rating_filter
          /\ year_filter'[1] >= year_filter[1]
          /\ year_filter'[2] <= year_filter[2] )
        => Len(filtered_df') <= Len(filtered_df) ]_vars

\* A type was deselected and the view lost the records of that type.
C7_Witness ==
    /\ Filtered
    /\ type_filter # TypeOptions(cached)
    /\ type_filter # {}
    /\ year_filter = <<DefaultYearLo, DefaultYearHi>>
    /\ Len(filtered_df) >= 1
    /\ \E i \in Index(cached) :
          Row(i).release_year # NaN /\ Row(i).type \notin type_filter

C9_PrimaryCountryTrimmed ==
    "tab5" \in rendered =>
        \A i \in ViewSet :
            Row(i).country # NaN =>
                LET p == Val(PrimaryCountry(Row(i).country))
                IN /\ p \in DOMAIN country_counts
                   /\ country_counts[p] =
                        Cardinality({ j \in ViewSet :
                                        PrimaryCountry(Row(j).country) = Cell(p) })

\* C10: the per-year counts partition the filtered view: they sum to Total
\* Titles, every year lies in the selected range, and no count is zero.
C10_YearCountsPartition ==
    "tab1" \in rendered =>
        /\ SumCounts(titles_per_year, DOMAIN titles_per_year) = total_titles
        /\ \A y \in DOMAIN titles_per_year :
              /\ year_filter[1] <= y
              /\ y <= year_filter[2]
              /\ titles_per_year[y] > 0

\* A non-empty view under a narrowed range, with a record of a selected type
\* left out because it has no year.
C10_Witness ==
    /\ "tab1" \in rendered
    /\ year_filter # <<DefaultYearLo, DefaultYearHi>>
    /\ total_titles >= 1
    /\ \E i \in Index(cached) :
          Row(i).type \in type_filter /\ Row(i).release_year = NaN

====
